---- MODULE Spec2Model ----
(***************************************************************************)
(* Model of artnet_test.py: an ArtNet (Art-Net DMX over UDP) animation     *)
(* streamer.  One run of the script is one behaviour: the command line is  *)
(* parsed, one effect function is entered, its "while True" loop updates   *)
(* the channel buffer, encodes it, sends it, advances the animation state  *)
(* and sleeps, until KeyboardInterrupt sends a clear frame and the script  *)
(* ends.                                                                   *)
(*                                                                         *)
(* Bytes are integers 0..255.  A bytearray is a function on 0..len-1 (the  *)
(* source's indices); a packet is a sequence (packet[1] is byte 0).        *)
(***************************************************************************)
EXTENDS Integers, Sequences, FiniteSets

VARIABLES
    effect,        \* sys.argv[3].lower(), or DEFAULT_EFFECT
    universe,      \* int(sys.argv[2]), or DEFAULT_UNIVERSE
    num_leds,      \* strip length
    pc,            \* position of the script
    dmx_data,      \* the running effect's channel buffer
    offset,        \* rainbow_effect: hue offset
    position,      \* chase_effect: head pixel
    color_index,   \* chase_effect: index into colors
    hue,           \* solid_color: hue
    last_packet,   \* the last packet sock.sendto accepted (<<>>: none yet)
    num_sent,      \* packets sock.sendto accepted in the run (0, 1, 2: two or more)
    frames,        \* effect frames sock.sendto accepted
    interrupted,   \* KeyboardInterrupt was raised in the effect's try block
    sent_after_interrupt,  \* packets sock.sendto accepted since then
    send_failed,   \* sock.sendto raised OSError
    exit_status,   \* exit status of the process (-1: still running)
    interrupted_at,  \* the loop position KeyboardInterrupt was raised at
    sparked,       \* random_effect: the pixels drawn by the sparks of this tick
    draws,         \* random_effect: the sparks drawn in this tick
    hsv_call,      \* hsv_to_rgb called on its own: the arguments <<h, s, v>>
    hsv_result,    \* and what it returned (<<>>: not yet)
    main_pc,       \* code.py: position of main()
    i2c_locked,    \* code.py: the I2C bus lock is held
    pixel_status,  \* code.py: the colour of cp.pixels
    devices,       \* code.py: devices of main()
    response,      \* code.py: response of main()
    last_op        \* code.py: the I2C operation that finished last

\* The state of hsv_to_rgb called on its own.
hsv_vars == <<hsv_call, hsv_result>>

\* The state of the I2C monitor, code.py.
monitor_vars == <<main_pc, i2c_locked, pixel_status, devices, response, last_op>>

\* The state of artnet_test.py.
script_vars == <<effect, universe, num_leds, pc, dmx_data, offset, position,
                 color_index, hue, last_packet, num_sent, frames, interrupted,
                 sent_after_interrupt, send_failed, exit_status,
                 interrupted_at, sparked, draws>>

vars == <<effect, universe, num_leds, pc, dmx_data, offset, position,
          color_index, hue, last_packet, num_sent, frames, interrupted,
          sent_after_interrupt, send_failed, exit_status, interrupted_at,
          sparked, draws, hsv_vars, monitor_vars>>

(***************************************************************************)
(* Bounds of the model and constants of the program.                       *)
(***************************************************************************)
\* Effect frames a run of rainbow, chase or solid sends before the model
\* stops starting new ticks (the source loops forever).
MaxFrames == 258

\* The same for the random effect, whose frames are not determined.
MaxSparkFrames == 2

DEFAULT_UNIVERSE == 0

DEFAULT_NUM_LEDS == 144

\* Strip lengths of the model: shorter than the chase head and trail, just
\* as long, longer, long enough for sparks, and the source's value.
NumLedsSet == {1, 3, 10, 12, 21, DEFAULT_NUM_LEDS}

\* Values of int(sys.argv[2]): the default, one with both bytes set, the
\* largest 16-bit value and the first value that does not fit 16 bits.
Universes == {DEFAULT_UNIVERSE, 258, 65535, 65536}

KnownEffects == {"rainbow", "chase", "random", "solid"}

\* Values of sys.argv[3].lower(): the four effects and a name that is none.
Effects == KnownEffects \cup {"strobe"}

\* The positions inside "while True" of an effect function.
LoopPcs == {"update", "send", "advance", "sleep"}

(***************************************************************************)
(* bytearray helpers                                                       *)
(***************************************************************************)
\* bytearray(n): n zero bytes
bytearray(n) == [j \in 0..(n - 1) |-> 0]

\* the bytes of a bytearray, in order, as packet.extend(dmx_data) appends them
BytesOf(d) == [j \in 1..Cardinality(DOMAIN d) |-> d[j - 1]]

\* x & 0xFF on a Python int (two's complement for negative x)
And255(x) == x % 256

\* x >> 8 on a Python int (arithmetic shift: floor division)
Shr8(x) == x \div 256

(***************************************************************************)
(* create_artnet_packet                                                    *)
(***************************************************************************)
\* create_artnet_packet with the length field low byte first: C7 tells the
\* two apart.
create_artnet_packet_length_le(u, data) ==
    LET length == Cardinality(DOMAIN data)
    IN  <<65, 114, 116, 45, 78, 101, 116, 0>> \o <<0, 80>> \o <<0, 14>>
           \o <<0>> \o <<0>> \o <<And255(u), And255(Shr8(u))>>
           \o <<And255(length), And255(Shr8(length))>> \o BytesOf(data)

create_artnet_packet(u, data) ==
    LET id       == <<65, 114, 116, 45, 78, 101, 116, 0>>   \* b'Art-Net\0'
        opcode   == <<0, 80>>                               \* [0x00, 0x50]
        version  == <<0, 14>>                               \* [0x00, 0x0e]
        sequence == <<0>>
        physical == <<0>>
        univ     == <<And255(u), And255(Shr8(u))>>
        length   == Cardinality(DOMAIN data)
        len16    == <<And255(Shr8(length)), And255(length)>>
    IN  id \o opcode \o version \o sequence \o physical \o univ \o len16
           \o BytesOf(data)

(***************************************************************************)
(* hsv_to_rgb                                                              *)
(***************************************************************************)
\* The hues h at which colorsys.hsv_to_rgb(h/255.0, 1.0, 1.0), computed in
\* IEEE-754 double precision, returns its middle channel just below the
\* exact value (255 - F)/255 or F/255, so that int(channel * 255) is one
\* less than the exact product.  Both callers pass s = v = 255.
FloatBelowHues ==
    {3, 6, 7, 11, 14, 15, 19, 22, 30, 38, 47, 49, 51, 52, 55, 57, 63, 66, 67,
     68, 70, 71, 74, 78, 79, 82, 83, 84, 86, 87, 88, 89, 91, 92, 93, 96, 97,
     107, 108, 109, 113, 118, 119, 120, 121, 123, 124, 125, 132, 133, 134,
     135, 136, 137, 140, 141, 142, 148, 156, 157, 158, 159, 164, 165, 166,
     167, 168, 169, 171, 172, 173, 174, 175, 176, 177, 178, 179, 181, 182,
     183, 184, 185, 186, 187, 192, 193, 194, 195, 203, 220, 221, 222, 228,
     229, 230, 231, 232, 233, 244, 252, 253, 254}

\* Saturations and values hsv_to_rgb is modelled on beyond s = v = 255.
HsvLevels == {0, 1, 2, 64, 127, 128, 200, 254, 255}

\* The same for the other <<h, s, v>> with s and v in HsvLevels: the
\* arguments at which the double-precision q or t the call returns is just
\* below its exact value, an integer multiple of 1/255.
FloatBelowMid ==
    {<<0, 254, 255>>, <<51, 200, 255>>, <<51, 255, 200>>, <<68, 200, 255>>,
     <<68, 255, 200>>, <<85, 254, 255>>, <<119, 200, 255>>, <<119, 255, 200>>,
     <<136, 200, 255>>, <<136, 255, 200>>, <<170, 254, 255>>,
     <<187, 200, 255>>, <<187, 255, 200>>, <<221, 200, 255>>,
     <<221, 255, 200>>, <<255, 254, 255>>}

\* The <<s, v>> of HsvLevels at which the double-precision p = v*(1.0 - s)
\* is just below its exact value, an integer multiple of 1/255.
FloatBelowP == {<<254, 255>>}

\* hsv_to_rgb multiplying the channels by 256: C13 tells the two apart.
hsv_to_rgb_times_256(h, s, v) ==
    IF s = 0 THEN <<(v * 256) \div 255, (v * 256) \div 255, (v * 256) \div 255>>
    ELSE
    LET i == (6 * h) \div 255
        F == 6 * h - 255 * i
        D == 255 * 255
        w == (v * 256) \div 255
        p == (v * (255 - s) * 256) \div D
        q == (((v * (D - s * F)) \div 255) * 256) \div D
        t == (((v * (D - s * (255 - F))) \div 255) * 256) \div D
        k == i % 6
    IN  CASE k = 0 -> <<w, t, p>>
          [] k = 1 -> <<q, w, p>>
          [] k = 2 -> <<p, w, t>>
          [] k = 3 -> <<p, q, w>>
          [] k = 4 -> <<t, p, w>>
          [] k = 5 -> <<w, p, q>>

\* colorsys.hsv_to_rgb on h/255.0, s/255.0, v/255.0, each channel then
\* int(channel * 255).  i is int(h*6.0), F/255 is f; p, q, t are the
\* source's p, q, t times 255, truncated.  The model is that of the source
\* for h in 0..255 and s, v in HsvLevels.
hsv_to_rgb(h, s, v) ==
    IF s = 0 THEN <<v, v, v>>
    ELSE
    LET i == (6 * h) \div 255
        F == 6 * h - 255 * i
        D == 255 * 255
        e == IF \/ s = 255 /\ v = 255 /\ h \in FloatBelowHues
                \/ <<h, s, v>> \in FloatBelowMid
             THEN 1 ELSE 0
        p == (v * (255 - s)) \div 255
               - (IF <<s, v>> \in FloatBelowP THEN 1 ELSE 0)
        q == (v * (D - s * F)) \div D - e
        t == (v * (D - s * (255 - F))) \div D - e
        k == i % 6
    IN  CASE k = 0 -> <<v, t, p>>
          [] k = 1 -> <<q, v, p>>
          [] k = 2 -> <<p, v, t>>
          [] k = 3 -> <<p, q, v>>
          [] k = 4 -> <<t, p, v>>
          [] k = 5 -> <<v, p, q>>

(***************************************************************************)
(* Startup                                                                 *)
(***************************************************************************)
\* hsv_to_rgb is not being called on its own.
HsvIdle ==
    /\ hsv_call = <<>>
    /\ hsv_result = <<>>

I2C_ADDR == 8

COLOR_IDLE == <<0, 0, 10>>
COLOR_ACTIVE == <<0, 10, 0>>
COLOR_ERROR == <<10, 0, 0>>
COLOR_ALERT == <<10, 10, 0>>
COLOR_OFF == <<0, 0, 0>>

\* What receive_data returns when it caught an exception.
None == "None"

\* code.py is not running.
MonitorIdle ==
    /\ main_pc = "off"
    /\ i2c_locked = FALSE
    /\ pixel_status = COLOR_OFF
    /\ devices = {}
    /\ response = None
    /\ last_op = "none"

\* artnet_test.py is not running.
ScriptIdle ==
    /\ effect = "rainbow"
    /\ universe = DEFAULT_UNIVERSE
    /\ num_leds = DEFAULT_NUM_LEDS
    /\ pc = "off"
    /\ dmx_data = bytearray(0)
    /\ offset = 0
    /\ position = 0
    /\ color_index = 0
    /\ hue = 0
    /\ last_packet = <<>>
    /\ num_sent = 0
    /\ frames = 0
    /\ interrupted = FALSE
    /\ sent_after_interrupt = 0
    /\ send_failed = FALSE
    /\ exit_status = -1
    /\ interrupted_at = "none"
    /\ sparked = {}
    /\ draws = 0

\* After argument parsing and socket creation, before the dispatch on effect.
Init ==
    /\ HsvIdle
    /\ MonitorIdle
    /\ interrupted_at = "none"
    /\ sparked = {}
    /\ draws = 0
    /\ effect \in Effects
    /\ universe \in Universes
    /\ num_leds \in NumLedsSet
    /\ pc = "dispatch"
    /\ dmx_data = bytearray(0)
    /\ offset = 0
    /\ position = 0
    /\ color_index = 0
    /\ hue = 0
    /\ last_packet = <<>>
    /\ num_sent = 0
    /\ frames = 0
    /\ interrupted = FALSE
    /\ sent_after_interrupt = 0
    /\ send_failed = FALSE
    /\ exit_status = -1

\* What a successful sock.sendto(packet, ...) leaves behind.
Sent(packet) ==
    /\ last_packet' = packet
    /\ num_sent' = IF num_sent < 2 THEN num_sent + 1 ELSE 2
    /\ sent_after_interrupt' =
           IF interrupted THEN sent_after_interrupt + 1 ELSE sent_after_interrupt

\* Dispatch whose else branch forgets clear_leds(): C4 tells the two apart.
Dispatch_without_clear ==
    /\ pc = "dispatch"
    /\ IF effect \in KnownEffects
       THEN /\ pc' = "update"
            /\ dmx_data' = bytearray(num_leds * 3)
            /\ UNCHANGED exit_status
       ELSE /\ pc' = "done"
            /\ exit_status' = 0
            /\ UNCHANGED dmx_data
    /\ offset' = 0
    /\ position' = 0
    /\ color_index' = 0
    /\ hue' = 0
    /\ UNCHANGED <<hsv_vars, monitor_vars, interrupted_at, sparked, draws>>
    /\ UNCHANGED <<effect, universe, num_leds, last_packet, num_sent, frames,
                   interrupted, sent_after_interrupt, send_failed>>

\* "if effect == ... elif ... else": a known effect enters its function,
\* which allocates the buffer and its state and enters "while True"; any
\* other name prints the list of effects and calls clear_leds.
Dispatch ==
    /\ pc = "dispatch"
    /\ IF effect \in KnownEffects
       THEN /\ pc' = "update"
            /\ dmx_data' = bytearray(num_leds * 3)
       ELSE /\ pc' = "clear"
            /\ UNCHANGED dmx_data
    /\ offset' = 0
    /\ position' = 0
    /\ color_index' = 0
    /\ hue' = 0
    /\ UNCHANGED <<hsv_vars, monitor_vars, interrupted_at, sparked, draws>>
    /\ UNCHANGED <<effect, universe, num_leds, last_packet, num_sent, frames,
                   interrupted, sent_after_interrupt, send_failed, exit_status>>

(***************************************************************************)
(* rainbow_effect                                                          *)
(***************************************************************************)
\* for i in range(num_leds): hue = (i*5 + offset) % 256; dmx_data[3i..3i+2] = r, g, b
RainbowFrame(data, off) ==
    [j \in DOMAIN data |->
        hsv_to_rgb(((j \div 3) * 5 + off) % 256, 255, 255)[(j % 3) + 1]]

\* A tick may start while the run has sent fewer frames than the model's cap.
TickAllowed ==
    frames < (IF effect = "random" THEN MaxSparkFrames ELSE MaxFrames)

rainbow_update ==
    /\ pc = "update"
    /\ effect = "rainbow"
    /\ TickAllowed
    /\ dmx_data' = RainbowFrame(dmx_data, offset)
    /\ pc' = "send"
    /\ UNCHANGED <<hsv_vars, monitor_vars, interrupted_at, sparked, draws>>
    /\ UNCHANGED <<effect, universe, num_leds, offset, position, color_index,
                   hue, last_packet, num_sent, frames, interrupted,
                   sent_after_interrupt, send_failed, exit_status>>

(***************************************************************************)
(* chase_effect                                                            *)
(***************************************************************************)
colors ==
    <<  <<255, 0, 0>>,      \* Red
        <<0, 255, 0>>,      \* Green
        <<0, 0, 255>>,      \* Blue
        <<255, 255, 0>>,    \* Yellow
        <<255, 0, 255>>,    \* Magenta
        <<0, 255, 255>> >>  \* Cyan

\* dmx_data[i*3], dmx_data[i*3+1], dmx_data[i*3+2] = rgb
SetPixel(data, i, rgb) ==
    [data EXCEPT ![i * 3] = rgb[1], ![i * 3 + 1] = rgb[2], ![i * 3 + 2] = rgb[3]]

\* TrailBrightness fading over nine steps instead of ten: C17 tells the two
\* apart.
TrailBrightness_of_nine(trail) == (255 * (9 - trail)) \div 9

\* brightness = int(255 * (10 - trail) / 10)
TrailBrightness(trail) == (255 * (10 - trail)) \div 10

\* int(colors[color_index][c] * brightness / 255) for the three channels
TrailColor(ci, trail) ==
    [c \in 1..3 |-> (colors[ci + 1][c] * TrailBrightness(trail)) \div 255]

\* "for trail in range(1, 10)", from trail on: later writes overwrite earlier ones
RECURSIVE ChaseTrail(_, _, _, _)
ChaseTrail(data, pos, ci, trail) ==
    IF trail > 9 THEN data
    ELSE ChaseTrail(SetPixel(data, (pos - trail) % num_leds, TrailColor(ci, trail)),
                    pos, ci, trail + 1)

\* ChaseFrame without the loop that clears all LEDs: C9 tells the two apart.
ChaseFrame_without_clear(data, pos, ci) ==
    ChaseTrail(SetPixel(data, pos, colors[ci + 1]), pos, ci, 1)

\* Clear all LEDs, set the main dot, then the trailing dots.
ChaseFrame(data, pos, ci) ==
    ChaseTrail(SetPixel([j \in DOMAIN data |-> 0], pos, colors[ci + 1]), pos, ci, 1)

chase_update ==
    /\ pc = "update"
    /\ effect = "chase"
    /\ TickAllowed
    /\ dmx_data' = ChaseFrame(dmx_data, position, color_index)
    /\ pc' = "send"
    /\ UNCHANGED <<hsv_vars, monitor_vars, interrupted_at, sparked, draws>>
    /\ UNCHANGED <<effect, universe, num_leds, offset, position, color_index,
                   hue, last_packet, num_sent, frames, interrupted,
                   sent_after_interrupt, send_failed, exit_status>>

(***************************************************************************)
(* random_effect                                                           *)
(***************************************************************************)
\* Fade rounding to nearest instead of truncating: C11 tells the two apart.
Fade_rounded(x) == (x * 9 + 5) \div 10

\* int(x * 0.9)
Fade(x) == (x * 9) \div 10

\* int(num_leds * 0.05): the sparks of one tick
NumSparks == num_leds \div 20

\* Outcomes of random.randint(0, num_leds - 1) the model draws.
RandIndex == {0, num_leds - 1}

\* Outcomes of the three random.randint(180, 255) of one spark the model draws.
SparkColors == {<<180, 255, 180>>, <<255, 180, 217>>}

\* "for _ in range(n)": what n further sparks can leave, from any outcome of
\* outs.  An outcome is the buffer, the pixels drawn and the number of draws.
RECURSIVE Sparks(_, _)
Sparks(outs, n) ==
    IF n = 0 THEN outs
    ELSE Sparks({[buf    |-> SetPixel(o.buf, i, c),
                  pixels |-> o.pixels \cup {i},
                  draws  |-> o.draws + 1] :
                     o \in outs, i \in RandIndex, c \in SparkColors},
                n - 1)

random_update ==
    /\ pc = "update"
    /\ effect = "random"
    /\ TickAllowed
    /\ \E o \in Sparks({[buf    |-> [j \in DOMAIN dmx_data |-> Fade(dmx_data[j])],
                          pixels |-> {},
                          draws  |-> 0]}, NumSparks) :
           /\ dmx_data' = o.buf
           /\ sparked' = o.pixels
           /\ draws' = o.draws
    /\ pc' = "send"
    /\ UNCHANGED <<hsv_vars, monitor_vars, interrupted_at>>
    /\ UNCHANGED <<effect, universe, num_leds, offset, position, color_index,
                   hue, last_packet, num_sent, frames, interrupted,
                   sent_after_interrupt, send_failed, exit_status>>

(***************************************************************************)
(* solid_color                                                             *)
(***************************************************************************)
SolidFrame(data, h) ==
    [j \in DOMAIN data |-> hsv_to_rgb(h, 255, 255)[(j % 3) + 1]]

solid_update ==
    /\ pc = "update"
    /\ effect = "solid"
    /\ TickAllowed
    /\ dmx_data' = SolidFrame(dmx_data, hue)
    /\ pc' = "send"
    /\ UNCHANGED <<hsv_vars, monitor_vars, interrupted_at, sparked, draws>>
    /\ UNCHANGED <<effect, universe, num_leds, offset, position, color_index,
                   hue, last_packet, num_sent, frames, interrupted,
                   sent_after_interrupt, send_failed, exit_status>>

(***************************************************************************)
(* The rest of an iteration: send, advance the state, sleep                *)
(***************************************************************************)
\* send_frame going on to the sleep in every effect, the state never
\* advanced: C16 tells the two apart.
send_frame_without_advance ==
    /\ pc = "send"
    /\ Sent(create_artnet_packet(universe, dmx_data))
    /\ frames' = frames + 1
    /\ pc' = "sleep"
    /\ UNCHANGED <<hsv_vars, monitor_vars, interrupted_at, sparked, draws>>
    /\ UNCHANGED <<effect, universe, num_leds, dmx_data, offset, position,
                   color_index, hue, interrupted, send_failed, exit_status>>

\* packet = create_artnet_packet(universe, dmx_data); sock.sendto(packet, ...)
\* random_effect has no state to advance and goes on to its sleep.
send_frame ==
    /\ pc = "send"
    /\ Sent(create_artnet_packet(universe, dmx_data))
    /\ frames' = frames + 1
    /\ pc' = IF effect = "random" THEN "sleep" ELSE "advance"
    /\ UNCHANGED <<hsv_vars, monitor_vars, interrupted_at, sparked, draws>>
    /\ UNCHANGED <<effect, universe, num_leds, dmx_data, offset, position,
                   color_index, hue, interrupted, send_failed, exit_status>>

\* rainbow_advance wrapping one early: C8 tells the two apart.
rainbow_advance_mod_255 ==
    /\ pc = "advance"
    /\ effect = "rainbow"
    /\ offset' = (offset + 1) % 255
    /\ pc' = "sleep"
    /\ UNCHANGED <<hsv_vars, monitor_vars, interrupted_at, sparked, draws>>
    /\ UNCHANGED <<effect, universe, num_leds, dmx_data, position, color_index,
                   hue, last_packet, num_sent, frames, interrupted,
                   sent_after_interrupt, send_failed, exit_status>>

\* offset = (offset + 1) % 256
rainbow_advance ==
    /\ pc = "advance"
    /\ effect = "rainbow"
    /\ offset' = (offset + 1) % 256
    /\ pc' = "sleep"
    /\ UNCHANGED <<hsv_vars, monitor_vars, interrupted_at, sparked, draws>>
    /\ UNCHANGED <<effect, universe, num_leds, dmx_data, position, color_index,
                   hue, last_packet, num_sent, frames, interrupted,
                   sent_after_interrupt, send_failed, exit_status>>

\* chase_advance testing "position == 0" before it moves position: C10
\* tells the two apart.
chase_advance_color_before_move ==
    /\ pc = "advance"
    /\ effect = "chase"
    /\ position' = (position + 1) % num_leds
    /\ color_index' = IF position = 0 THEN (color_index + 1) % Len(colors)
                                      ELSE color_index
    /\ pc' = "sleep"
    /\ UNCHANGED <<hsv_vars, monitor_vars, interrupted_at, sparked, draws>>
    /\ UNCHANGED <<effect, universe, num_leds, dmx_data, offset, hue,
                   last_packet, num_sent, frames, interrupted,
                   sent_after_interrupt, send_failed, exit_status>>

\* position = (position + 1) % num_leds; if position == 0: next color
chase_advance ==
    /\ pc = "advance"
    /\ effect = "chase"
    /\ position' = (position + 1) % num_leds
    /\ color_index' = IF position' = 0 THEN (color_index + 1) % Len(colors)
                                       ELSE color_index
    /\ pc' = "sleep"
    /\ UNCHANGED <<hsv_vars, monitor_vars, interrupted_at, sparked, draws>>
    /\ UNCHANGED <<effect, universe, num_leds, dmx_data, offset, hue,
                   last_packet, num_sent, frames, interrupted,
                   sent_after_interrupt, send_failed, exit_status>>

\* solid_advance wrapping one early: C18 tells the two apart.
solid_advance_mod_255 ==
    /\ pc = "advance"
    /\ effect = "solid"
    /\ hue' = (hue + 1) % 255
    /\ pc' = "sleep"
    /\ UNCHANGED <<hsv_vars, monitor_vars, interrupted_at, sparked, draws>>
    /\ UNCHANGED <<effect, universe, num_leds, dmx_data, offset, position,
                   color_index, last_packet, num_sent, frames, interrupted,
                   sent_after_interrupt, send_failed, exit_status>>

\* hue = (hue + 1) % 256
solid_advance ==
    /\ pc = "advance"
    /\ effect = "solid"
    /\ hue' = (hue + 1) % 256
    /\ pc' = "sleep"
    /\ UNCHANGED <<hsv_vars, monitor_vars, interrupted_at, sparked, draws>>
    /\ UNCHANGED <<effect, universe, num_leds, dmx_data, offset, position,
                   color_index, last_packet, num_sent, frames, interrupted,
                   sent_after_interrupt, send_failed, exit_status>>

\* time.sleep(...) returns and "while True" starts the next iteration
sleep ==
    /\ pc = "sleep"
    /\ pc' = "update"
    /\ UNCHANGED <<hsv_vars, monitor_vars, interrupted_at, sparked, draws>>
    /\ UNCHANGED <<effect, universe, num_leds, dmx_data, offset, position,
                   color_index, hue, last_packet, num_sent, frames, interrupted,
                   sent_after_interrupt, send_failed, exit_status>>

(***************************************************************************)
(* Leaving the loop                                                        *)
(***************************************************************************)
\* Ctrl+C: KeyboardInterrupt is raised at the statement the loop is at and
\* "except KeyboardInterrupt" is entered; its first statement is clear_leds().
\* What the abandoned iteration left in dmx_data is not read again:
\* clear_leds allocates its own buffer.
KeyboardInterrupt ==
    /\ pc \in LoopPcs
    /\ interrupted' = TRUE
    /\ interrupted_at' = pc
    /\ pc' = "clear"
    /\ UNCHANGED <<hsv_vars, monitor_vars, sparked, draws>>
    /\ UNCHANGED <<effect, universe, num_leds, dmx_data, offset, position,
                   color_index, hue, last_packet, num_sent, frames,
                   sent_after_interrupt, send_failed, exit_status>>

\* clear_leds allocating one byte per LED: C12 tells the two apart.
clear_leds_one_byte_per_led ==
    /\ pc = "clear"
    /\ Sent(create_artnet_packet(universe, bytearray(num_leds)))
    /\ pc' = "done"
    /\ exit_status' = 0
    /\ UNCHANGED <<hsv_vars, monitor_vars, interrupted_at, sparked, draws>>
    /\ UNCHANGED <<effect, universe, num_leds, dmx_data, offset, position,
                   color_index, hue, frames, interrupted, send_failed>>

\* clear_leds sending the effect's buffer instead of a fresh one: C1 tells
\* the two apart.
clear_leds_stale_buffer ==
    /\ pc = "clear"
    /\ Sent(create_artnet_packet(universe, dmx_data))
    /\ pc' = "done"
    /\ exit_status' = 0
    /\ UNCHANGED <<hsv_vars, monitor_vars, interrupted_at, sparked, draws>>
    /\ UNCHANGED <<effect, universe, num_leds, dmx_data, offset, position,
                   color_index, hue, frames, interrupted, send_failed>>

\* clear_leds() sends bytearray(num_leds * 3); its caller prints and returns,
\* and the script, at its last statement, ends with status 0.
clear_leds ==
    /\ pc = "clear"
    /\ Sent(create_artnet_packet(universe, bytearray(num_leds * 3)))
    /\ pc' = "done"
    /\ exit_status' = 0
    /\ UNCHANGED <<hsv_vars, monitor_vars, interrupted_at, sparked, draws>>
    /\ UNCHANGED <<effect, universe, num_leds, dmx_data, offset, position,
                   color_index, hue, frames, interrupted, send_failed>>

\* sock.sendto raises OSError (network unreachable, ...), in an effect's loop
\* or in clear_leds.  Nothing in the script catches it: "except
\* KeyboardInterrupt" does not match, the exception leaves the script and
\* the interpreter ends with status 1.
sendto_raises ==
    /\ pc \in {"send", "clear"}
    /\ send_failed' = TRUE
    /\ pc' = "done"
    /\ exit_status' = 1
    /\ UNCHANGED <<hsv_vars, monitor_vars, interrupted_at, sparked, draws>>
    /\ UNCHANGED <<effect, universe, num_leds, dmx_data, offset, position,
                   color_index, hue, last_packet, num_sent, frames, interrupted,
                   sent_after_interrupt>>

(***************************************************************************)
(* Specifications                                                          *)
(***************************************************************************)
\* The script on a network that accepts every datagram.
Next ==
    \/ Dispatch
    \/ rainbow_update
    \/ chase_update
    \/ random_update
    \/ solid_update
    \/ send_frame
    \/ rainbow_advance
    \/ chase_advance
    \/ solid_advance
    \/ sleep
    \/ KeyboardInterrupt
    \/ clear_leds

Spec == Init /\ [][Next]_vars

\* hsv_to_rgb called on its own, on a hue of 0..255 and a saturation and a
\* value of HsvLevels.
InitHsv ==
    /\ ScriptIdle
    /\ MonitorIdle
    /\ hsv_call \in (0..255) \X HsvLevels \X HsvLevels
    /\ hsv_result = <<>>

\* r, g, b = hsv_to_rgb(h, s, v)
hsv_to_rgb_call ==
    /\ hsv_call /= <<>>
    /\ hsv_result = <<>>
    /\ hsv_result' = hsv_to_rgb(hsv_call[1], hsv_call[2], hsv_call[3])
    /\ UNCHANGED <<effect, universe, num_leds, pc, dmx_data, offset, position,
                   color_index, hue, last_packet, num_sent, frames, interrupted,
                   sent_after_interrupt, send_failed, exit_status,
                   interrupted_at, sparked, draws, hsv_call, monitor_vars>>

NextHsv == hsv_to_rgb_call

SpecHsv == InitHsv /\ [][NextHsv]_vars

\* The addresses that may answer a scan of the bus: the ESP and one other
\* device (0x3C).
Addresses == {I2C_ADDR, 60}

\* What the ESP may answer to readfrom_into, decoded and stripped of NULs.
Replies == {"", "OK"}

\* What i2c.readfrom_into and result.decode do in receive_data: the read
\* raises OSError, the bytes read are not UTF-8, or a reply is returned.
ReadOutcomes == {"OSError", "UnicodeError"} \cup Replies

\* The positions of main() inside its while loop.
MainLoopPcs == {"button_a", "button_b", "status_response", "poll",
                "acceleration", "diag_response", "sleep"}

\* main() is about to run: the bus was created, nothing holds its lock.
InitI2C ==
    /\ ScriptIdle
    /\ HsvIdle
    /\ main_pc = "start"
    /\ i2c_locked = FALSE
    /\ pixel_status = COLOR_OFF
    /\ devices = {}
    /\ response = None
    /\ last_op = "none"

\* set_pixel_status(color): every pixel gets the colour.
set_pixel_status(color) == pixel_status' = color

\* scan_i2c_devices() when the scans report the addresses of found:
\* try_lock, the scans (an exception of one is swallowed by the inner try),
\* unlock; then pulse_animation, which ends on COLOR_IDLE, or
\* error_animation, which ends on COLOR_OFF.  Returns found.
scan_i2c_devices(found) ==
    /\ i2c_locked' = FALSE
    /\ last_op' = "scan_i2c_devices"
    /\ IF found /= {} THEN set_pixel_status(COLOR_IDLE)
                      ELSE set_pixel_status(COLOR_OFF)

\* send_command(command) when i2c.writeto returns (ok) or raises (~ok).
\* try_lock leaves the lock held, whether it was free or not; unlock is
\* reached only when writeto returned.  Returns ok.
send_command(ok) ==
    /\ i2c_locked' = ~ok
    /\ last_op' = "send_command"
    /\ IF ok THEN set_pixel_status(COLOR_ACTIVE)
             ELSE set_pixel_status(COLOR_ERROR)

\* receive_data(): unlock is reached only when readfrom_into returned; a
\* decode error comes after unlock and set_pixel_status(COLOR_ACTIVE).
\* Returns the reply, or None from the except clause.
receive_data(outcome) ==
    /\ i2c_locked' = (outcome = "OSError")
    /\ last_op' = "receive_data"
    /\ IF outcome \in Replies THEN set_pixel_status(COLOR_ACTIVE)
                              ELSE set_pixel_status(COLOR_ERROR)
    /\ response' = IF outcome \in Replies THEN outcome ELSE None

\* main(): set_pixel_status(COLOR_IDLE), the initial scan, the warning when
\* the ESP is not among the devices.
main_initial_scan ==
    /\ main_pc = "start"
    /\ \E found \in SUBSET Addresses :
          /\ devices' = found
          /\ IF I2C_ADDR \notin found
             THEN /\ i2c_locked' = FALSE
                  /\ last_op' = "scan_i2c_devices"
                  /\ set_pixel_status(COLOR_ALERT)
             ELSE scan_i2c_devices(found)
    /\ main_pc' = "button_a"
    /\ UNCHANGED <<response, script_vars, hsv_vars>>

\* if button_a.value: devices = scan_i2c_devices()
main_button_a ==
    /\ main_pc = "button_a"
    /\ \/ \E found \in SUBSET Addresses :
             /\ scan_i2c_devices(found)
             /\ devices' = found
       \/ UNCHANGED <<i2c_locked, last_op, pixel_status, devices>>
    /\ main_pc' = "button_b"
    /\ UNCHANGED <<response, script_vars, hsv_vars>>

\* if button_b.value: if send_command("STATUS"): ...
main_button_b ==
    /\ main_pc = "button_b"
    /\ \/ \E ok \in BOOLEAN :
             /\ send_command(ok)
             /\ main_pc' = IF ok THEN "status_response" ELSE "poll"
       \/ /\ UNCHANGED <<i2c_locked, last_op, pixel_status>>
          /\ main_pc' = "poll"
    /\ UNCHANGED <<devices, response, script_vars, hsv_vars>>

\* response = receive_data() after send_command("STATUS") returned True
main_status_response ==
    /\ main_pc = "status_response"
    /\ \E outcome \in ReadOutcomes : receive_data(outcome)
    /\ main_pc' = "poll"
    /\ UNCHANGED <<devices, script_vars, hsv_vars>>

\* The polling block: skipped when try_lock returns False, the lock being
\* held already; else i2c.scan() sees the ESP, does not see it, or raises,
\* and unlock is reached only when it returned.
main_poll ==
    /\ main_pc = "poll"
    /\ IF i2c_locked
       THEN UNCHANGED <<i2c_locked, pixel_status>>
       ELSE \E outcome \in {"present", "absent", "raises"} :
              /\ i2c_locked' = (outcome = "raises")
              /\ CASE outcome = "present" -> set_pixel_status(COLOR_IDLE)
                   [] outcome = "absent" -> set_pixel_status(COLOR_ALERT)
                   [] outcome = "raises" -> set_pixel_status(COLOR_ERROR)
    /\ last_op' = "poll"
    /\ main_pc' = "acceleration"
    /\ UNCHANGED <<devices, response, script_vars, hsv_vars>>

\* x, y, z = cp.acceleration; when shaken: send_command("DIAG"), whose
\* result is not looked at.
main_acceleration ==
    /\ main_pc = "acceleration"
    /\ \/ /\ \E ok \in BOOLEAN : send_command(ok)
          /\ main_pc' = "diag_response"
       \/ /\ UNCHANGED <<i2c_locked, last_op, pixel_status>>
          /\ main_pc' = "sleep"
    /\ UNCHANGED <<devices, response, script_vars, hsv_vars>>

\* response = receive_data() after send_command("DIAG")
main_diag_response ==
    /\ main_pc = "diag_response"
    /\ \E outcome \in ReadOutcomes : receive_data(outcome)
    /\ main_pc' = "sleep"
    /\ UNCHANGED <<devices, script_vars, hsv_vars>>

\* time.sleep(0.1) at the end of the loop body
main_sleep ==
    /\ main_pc = "sleep"
    /\ main_pc' = "button_a"
    /\ UNCHANGED <<i2c_locked, pixel_status, devices, response, last_op,
                   script_vars, hsv_vars>>

\* except KeyboardInterrupt: set_pixel_status(COLOR_OFF)
main_KeyboardInterrupt ==
    /\ main_pc \in MainLoopPcs
    /\ main_pc' = "stopped"
    /\ set_pixel_status(COLOR_OFF)
    /\ UNCHANGED <<i2c_locked, devices, response, last_op,
                   script_vars, hsv_vars>>

NextI2C ==
    \/ main_initial_scan
    \/ main_button_a
    \/ main_button_b
    \/ main_status_response
    \/ main_poll
    \/ main_acceleration
    \/ main_diag_response
    \/ main_sleep
    \/ main_KeyboardInterrupt

SpecI2C == InitI2C /\ [][NextI2C]_vars

\* The script on a network where a send may fail.
NextSendFails ==
    \/ Next
    \/ sendto_raises

SpecSendFails == Init /\ [][NextSendFails]_vars

(***************************************************************************)
(* Properties                                                              *)
(***************************************************************************)
\* The channel data of packet p is n zero bytes.
ZeroChannelData(p, n) ==
    /\ Len(p) = 18 + n
    /\ \A j \in 19..Len(p) : p[j] = 0

\* Pixel i of the channel data of packet p.
PacketPixel(p, i) == <<p[19 + 3 * i], p[20 + 3 * i], p[21 + 3 * i]>>

\* An effect frame has just been sent: dmx_data is what last_packet carries.
FrameJustSent == pc = "advance" \/ (pc = "sleep" /\ effect = "random")

\* C1: once KeyboardInterrupt has been raised in the run loop of an effect,
\* at whatever statement and after any number of ticks, the script is in
\* clear_leds or has ended; it sends no packet but the one of clear_leds,
\* whose channel data is 3 * num_leds zero bytes; clear_leds can always run,
\* and when the script has ended exactly that one packet has been sent since
\* the interrupt.
C1_InterruptSendsOneClearFrame ==
    interrupted =>
        /\ effect \in KnownEffects
        /\ pc \in {"clear", "done"}
        /\ pc = "clear" => (sent_after_interrupt = 0 /\ ENABLED clear_leds)
        /\ pc = "done" =>
              /\ sent_after_interrupt = 1
              /\ ZeroChannelData(last_packet, 3 * num_leds)

C1_Witness ==
    /\ interrupted
    /\ pc = "done"
    /\ effect = "chase"
    /\ frames = 5
    /\ sent_after_interrupt = 1
    /\ num_sent = 2

\* C2: whenever a run that entered an effect's loop has ended, by an
\* interrupt or by a failed send, the last packet sent has all-zero
\* channel data.  (A run whose clear frame itself could not be sent, an
\* interrupt followed by a failed send in clear_leds, is left aside: no
\* last packet of it can be the clear frame.)
C2_LastPacketIsClear ==
    (/\ pc = "done"
     /\ effect \in KnownEffects
     /\ num_sent > 0
     /\ ~(interrupted /\ send_failed)) =>
        ZeroChannelData(last_packet, 3 * num_leds)

\* C3: a failed send in the run loop does not end the run: until an
\* interrupt arrives the script is still in the loop.
C3_SendFailureStaysInLoop ==
    (send_failed /\ ~interrupted /\ effect \in KnownEffects) => pc \in LoopPcs

\* C4: with an effect name that is none of the four, the script never
\* enters a run loop and sends no effect frame; it sends one packet, with
\* all-zero channel data, and has then ended.
C4_UnknownEffectOnlyClears ==
    effect \notin KnownEffects =>
        /\ pc \in {"dispatch", "clear", "done"}
        /\ frames = 0
        /\ pc /= "done" => (num_sent = 0 /\ ENABLED Next)
        /\ pc = "done" =>
              /\ num_sent = 1
              /\ ZeroChannelData(last_packet, 3 * num_leds)

C4_Witness ==
    /\ effect \notin KnownEffects
    /\ pc = "done"
    /\ num_sent = 1
    /\ num_leds = 12

\* C5: with a universe outside 0..65535 the run loop is not entered and the
\* only packet sent is a clear frame.
C5_UniverseOutOfRangeOnlyClears ==
    universe \notin 0..65535 =>
        /\ pc \notin LoopPcs
        /\ frames = 0
        /\ num_sent <= 1
        /\ num_sent = 1 => ZeroChannelData(last_packet, 3 * num_leds)

\* C6: the exit status is 0 when the run ends by an interrupt, after the
\* clear frame, and non-zero when it ends because the effect name is unknown.
C6_ExitStatus ==
    pc = "done" =>
        /\ interrupted => exit_status = 0
        /\ effect \notin KnownEffects => exit_status /= 0

\* C7: for a universe in 0..65535, a packet just built from the channel
\* buffer (an effect frame, or the clear frame) is 'Art-Net' NUL, 00 50,
\* 00 0E, 00, 00, the universe low byte then high byte, the data length high
\* byte then low byte, then the data unmodified: 18 + len(data) bytes, with
\* the big-endian value of bytes 16..17 equal to len(data).
C7_Layout(p, u, d, n) ==
    /\ Len(p) = 18 + n
    /\ SubSeq(p, 1, 12) = <<65, 114, 116, 45, 78, 101, 116, 0, 0, 80, 0, 14>>
    /\ p[13] = 0
    /\ p[14] = 0
    /\ p[15] = u % 256
    /\ p[16] = (u \div 256) % 256
    /\ p[17] = (n \div 256) % 256
    /\ p[18] = n % 256
    /\ p[17] * 256 + p[18] = n
    /\ \A j \in 0..(n - 1) : p[19 + j] = d[j]

C7_PacketLayout ==
    universe \in 0..65535 =>
        /\ FrameJustSent =>
              C7_Layout(last_packet, universe, dmx_data, 3 * num_leds)
        /\ (pc = "done" /\ ~send_failed) =>
              C7_Layout(last_packet, universe, [j \in 0..(3 * num_leds - 1) |-> 0],
                        3 * num_leds)

C7_Witness ==
    /\ universe = 258
    /\ num_leds = DEFAULT_NUM_LEDS
    /\ effect = "rainbow"
    /\ pc = "advance"
    /\ frames = 3
    /\ last_packet[15] = 2
    /\ last_packet[16] = 1
    /\ last_packet[17] = 1
    /\ last_packet[18] = 176

\* C8: in the rainbow effect the offset is k mod 256 after k completed
\* ticks, so it is back at 0 after 256 ticks and not before, and the k-th
\* frame sent (k = 0, 1, ...) colors pixel i with hue (i*5 + k) mod 256 at
\* full saturation and value.
C8_RainbowHueAndPeriod ==
    (effect = "rainbow" /\ pc \in LoopPcs) =>
        /\ pc \in {"update", "send", "sleep"} => offset = frames % 256
        /\ pc = "advance" =>
              /\ offset = (frames - 1) % 256
              /\ \A i \in 0..(num_leds - 1) :
                    PacketPixel(last_packet, i) =
                        hsv_to_rgb((i * 5 + (frames - 1)) % 256, 255, 255)
        /\ (offset = 0 /\ frames > 0 /\ pc /= "advance") => frames >= 256

C8_Witness ==
    /\ effect = "rainbow"
    /\ num_leds = 3
    /\ pc = "advance"
    /\ frames = 257
    /\ offset = 0
    /\ PacketPixel(last_packet, 0) = <<255, 0, 0>>

\* The pixels of the chase head and its nine trail positions.
ChaseLit(pos) == {(pos - t) % num_leds : t \in 0..9}

\* C9: in every frame the chase effect sends, the head pixel is non-zero,
\* every pixel that is neither the head nor one of the nine trail positions
\* behind it is (0, 0, 0), and so at most 10 pixels are non-zero.
C9_ChaseAtMostTenLit ==
    (effect = "chase" /\ pc = "advance") =>
        /\ PacketPixel(last_packet, position) /= <<0, 0, 0>>
        /\ \A i \in 0..(num_leds - 1) :
              i \notin ChaseLit(position) => PacketPixel(last_packet, i) = <<0, 0, 0>>
        /\ Cardinality({i \in 0..(num_leds - 1) :
                           PacketPixel(last_packet, i) /= <<0, 0, 0>>}) <= 10

C9_Witness ==
    /\ effect = "chase"
    /\ pc = "advance"
    /\ num_leds = 12
    /\ frames = 16
    /\ position = 3
    /\ Cardinality({i \in 0..(num_leds - 1) :
                       PacketPixel(last_packet, i) /= <<0, 0, 0>>}) = 10
    /\ PacketPixel(last_packet, 4) = <<0, 0, 0>>
    /\ PacketPixel(last_packet, 6) = <<0, 25, 0>>

\* Ticks of the running effect whose state advance has been executed.
TicksAdvanced == IF pc = "advance" THEN frames - 1 ELSE frames

\* C10: in the chase effect position is k mod num_leds and color_index is
\* floor(k / num_leds) mod 6 after k ticks (hence at the k-th frame), and
\* color_index changes only in the step that takes position from
\* num_leds - 1 to 0, where it advances by one modulo 6.
C10_ChasePositionAndColor ==
    /\ []((effect = "chase" /\ pc \in LoopPcs) =>
             /\ position = TicksAdvanced % num_leds
             /\ color_index = (TicksAdvanced \div num_leds) % 6)
    /\ [][color_index' /= color_index =>
             /\ position = num_leds - 1
             /\ position' = 0
             /\ color_index' = (color_index + 1) % 6]_vars

C10_Witness ==
    /\ effect = "chase"
    /\ num_leds = 12
    /\ pc = "update"
    /\ frames = 72
    /\ position = 0
    /\ color_index = 0

\* C11: the decay of a sparkle tick maps every channel value x of 0..255
\* to a smaller value when x > 0 and to 0 when x = 0; so in a tick a channel
\* of a pixel that gets no spark does not increase (and decreases unless it
\* is 0), and an all-zero buffer that gets no spark stays all-zero.
C11_SparkleDecay ==
    /\ []((effect = "random" /\ pc = "update") =>
             \A x \in 0..255 :
                 /\ x > 0 => (Fade(x) >= 0 /\ Fade(x) < x)
                 /\ x = 0 => Fade(x) = 0)
    /\ [][(effect = "random" /\ pc = "update" /\ pc' = "send") =>
             /\ \A j \in DOMAIN dmx_data :
                   (j \div 3) \notin sparked' =>
                       /\ dmx_data'[j] <= dmx_data[j]
                       /\ dmx_data[j] > 0 => dmx_data'[j] < dmx_data[j]
             /\ (sparked' = {} /\ \A j \in DOMAIN dmx_data : dmx_data[j] = 0) =>
                   \A j \in DOMAIN dmx_data : dmx_data'[j] = 0]_vars

C11_Witness ==
    /\ effect = "random"
    /\ num_leds = 21
    /\ pc = "send"
    /\ frames = 1
    /\ sparked = {20}
    /\ PacketPixel(last_packet, 0) = <<180, 255, 180>>
    /\ dmx_data[0] = 162
    /\ dmx_data[1] = 229
    /\ dmx_data[3] = 0

\* C12: every packet sent, effect frame or clear frame, carries 3 * num_leds
\* channel bytes and declares that length; 3 * num_leds is at most 512; and
\* the buffer of the running effect has 3 * num_leds bytes throughout.
C12_ChannelDataLength ==
    /\ 3 * num_leds <= 512
    /\ last_packet /= <<>> =>
          /\ Len(last_packet) = 18 + 3 * num_leds
          /\ last_packet[17] * 256 + last_packet[18] = 3 * num_leds
    /\ (effect \in KnownEffects /\ pc /= "dispatch") =>
          DOMAIN dmx_data = 0..(3 * num_leds - 1)

C12_Witness ==
    /\ num_leds = DEFAULT_NUM_LEDS
    /\ effect = "random"
    /\ pc = "done"
    /\ interrupted
    /\ frames = 2
    /\ Len(last_packet) = 450

\* C14: each sparkle tick draws ceil(num_leds * 0.05) pixel indices (8 for
\* 144 LEDs, at least 1 for any strip), and every channel of a pixel drawn
\* in the tick is in 180..255 in the frame to send.
C14_SparksPerTick ==
    (effect = "random" /\ pc = "send") =>
        /\ draws = (num_leds + 19) \div 20
        /\ draws >= 1
        /\ num_leds = 144 => draws = 8
        /\ \A i \in sparked : \A c \in 0..2 : dmx_data[3 * i + c] \in 180..255

\* C15: an interrupt is acted on only between iterations: when the handler
\* runs, no tick has been left with its buffer updated and its frame unsent.
C15_InterruptOnlyBetweenTicks ==
    interrupted => interrupted_at /= "send"

\* The animation state of the effects.
AnimationState == <<offset, position, color_index, hue>>

\* C16: inside the loop of every effect the steps follow one another as
\* update the buffer, encode and send one packet, advance the state, sleep
\* (random_effect has no state and sleeps after the send): the update sends
\* nothing and leaves the state alone, the send transmits the buffer as it
\* is, only the step after a send changes the state, and a send is followed
\* by a sleep before the next update; so the first frame is built from the
\* initial state and the state has advanced once per frame sent.
C16_StepOrder ==
    /\ []((effect \in KnownEffects /\ pc \in LoopPcs) =>
             /\ frames = 0 => AnimationState = <<0, 0, 0, 0>>
             /\ effect = "rainbow" => offset = TicksAdvanced % 256
             /\ effect = "chase" => position = TicksAdvanced % num_leds
             /\ effect = "solid" => hue = TicksAdvanced % 256)
    /\ [][(pc \in LoopPcs /\ pc' \in LoopPcs /\ pc' /= pc) =>
             \/ /\ pc = "update"
                /\ pc' = "send"
                /\ DOMAIN dmx_data' = DOMAIN dmx_data
                /\ UNCHANGED <<frames, last_packet, AnimationState>>
             \/ /\ pc = "send"
                /\ pc' = IF effect = "random" THEN "sleep" ELSE "advance"
                /\ frames' = frames + 1
                /\ SubSeq(last_packet', 19, Len(last_packet')) = BytesOf(dmx_data)
                /\ UNCHANGED <<dmx_data, AnimationState>>
             \/ /\ pc = "advance"
                /\ pc' = "sleep"
                /\ AnimationState' /= AnimationState
                /\ UNCHANGED <<frames, last_packet, dmx_data>>
             \/ /\ pc = "sleep"
                /\ pc' = "update"
                /\ UNCHANGED <<frames, last_packet, dmx_data, AnimationState>>]_vars

C16_Witness ==
    /\ effect = "chase"
    /\ num_leds = 12
    /\ pc = "sleep"
    /\ frames = 13
    /\ position = 1
    /\ color_index = 1

\* Channel values of palette color ci dimmed to (10 - t)/10, truncated.
Dimmed(ci, t) == [c \in 1..3 |-> (colors[ci + 1][c] * (10 - t)) \div 10]

\* C17 as stated: in every chase frame the pixel at position is the palette
\* color at full brightness and the pixel at (position - t) mod num_leds is
\* the palette color dimmed to (10 - t)/10, for t in 1..9.
C17_ChaseTrailAsStated ==
    (effect = "chase" /\ pc = "advance") =>
        /\ PacketPixel(last_packet, position) = colors[color_index + 1]
        /\ \A t \in 1..9 :
              PacketPixel(last_packet, (position - t) % num_leds)
                  = Dimmed(color_index, t)

\* The last of the steps 0..9 (0: the head) written to pixel i.
LastStepOn(i, pos) ==
    CHOOSE t \in 0..9 :
        /\ (pos - t) % num_leds = i
        /\ \A u \in 0..9 : (pos - u) % num_leds = i => u <= t

\* C17 amended: each pixel written holds the palette color dimmed by the
\* last step written to it; on a strip of 10 pixels or more the steps fall
\* on different pixels and the frame is as C17 states it.
C17_ChaseTrailLastWriteWins ==
    (effect = "chase" /\ pc = "advance") =>
        /\ \A i \in ChaseLit(position) :
              PacketPixel(last_packet, i)
                  = Dimmed(color_index, LastStepOn(i, position))
        /\ num_leds >= 10 =>
              /\ PacketPixel(last_packet, position) = colors[color_index + 1]
              /\ \A t \in 1..9 :
                    PacketPixel(last_packet, (position - t) % num_leds)
                        = Dimmed(color_index, t)

C17_Witness ==
    /\ effect = "chase"
    /\ pc = "advance"
    /\ num_leds = 3
    /\ frames = 5
    /\ position = 1
    /\ color_index = 1
    /\ PacketPixel(last_packet, 1) = <<0, 25, 0>>
    /\ PacketPixel(last_packet, 0) = <<0, 76, 0>>
    /\ PacketPixel(last_packet, 2) = <<0, 51, 0>>

\* C18: in the solid effect the hue is k mod 256 after k ticks, within
\* 0..255, back at 0 after 256 ticks and not before, and the k-th frame sent
\* has every pixel equal to hsv_to_rgb(k mod 256, 255, 255).
C18_SolidHueAndPeriod ==
    (effect = "solid" /\ pc \in LoopPcs) =>
        /\ hue \in 0..255
        /\ hue = TicksAdvanced % 256
        /\ (hue = 0 /\ TicksAdvanced > 0) => TicksAdvanced >= 256
        /\ pc = "advance" =>
              \A i \in 0..(num_leds - 1) :
                  /\ PacketPixel(last_packet, i) = PacketPixel(last_packet, 0)
                  /\ PacketPixel(last_packet, i)
                         = hsv_to_rgb((frames - 1) % 256, 255, 255)

C18_Witness ==
    /\ effect = "solid"
    /\ num_leds = 12
    /\ pc = "advance"
    /\ frames = 258
    /\ hue = 1
    /\ PacketPixel(last_packet, 11) = <<255, 6, 0>>

\* C13: for h in 0..255 and s, v in 0..255 (here: in HsvLevels) each of the
\* three channels hsv_to_rgb returns is an integer of 0..255.
C13_HsvChannelsAreBytes ==
    hsv_result /= <<>> =>
        /\ Len(hsv_result) = 3
        /\ \A c \in 1..3 : hsv_result[c] \in 0..255

C13_Witness ==
    /\ hsv_call = <<85, 254, 255>>
    /\ hsv_result = <<0, 255, 0>>

\* C19: whenever send_command, receive_data or the polling block of the main
\* loop has finished, normally or through its except clause, the I2C lock
\* is not held.
C19_LockReleasedAfterOperation ==
    last_op \in {"send_command", "receive_data", "poll"} => i2c_locked = FALSE

====
